---------------------------- MODULE Spec2Model ----------------------------
(***************************************************************************)
(* Model of constrained_decoding/server/__init__.py: the span annotation   *)
(* converter, the constraint index remapper, the BPE segmenter and the     *)
(* tokenizer adapter.                                                      *)
(*                                                                         *)
(* Python values are represented as follows.  A str is a TLA+ string       *)
(* (Len, \o and SubSeq act on strings as on Python strings); a list or a   *)
(* tuple is a sequence; a dict is a function whose DOMAIN is the key set;  *)
(* None is NoneAnn (for an annotation), NoneId (for a constraint id) or    *)
(* NoneIdx (for an offset).  A call that raises returns a record whose     *)
(* status names the exception.                                            *)
(***************************************************************************)
EXTENDS Integers, Sequences, FiniteSets, TLC

VARIABLES
    \* convert_token_annotations_to_spans: the arguments and the return value
    token_sequence, constraint_annotations, spans_ret,
    \* remap_constraint_indices: the arguments and the return value
    tokenized_sequence, detokenized_sequence, constraint_indices, remap_ret,
    \* encode: the arguments orig, bpe_codes, cache and the return value
    enc_orig, enc_codes, enc_cache, encode_ret,
    \* a BPE object, the argument and the return value of its last segment
    \* call, the number of segment calls made on it, and per word the number
    \* of encode calls segment has made and the number of those that ran the
    \* merge loop
    bpe, sentence, segment_ret, segment_calls, encode_calls, merge_runs,
    \* a DataProcessor (use_subword, bpe) and its tokenizer subprocess: the
    \* lines written to its stdin and not yet taken, the lines it has written
    \* to its stdout and tokenize has not yet read, whether that stdout has
    \* reached end of file, whether the subprocess has exited (nothing reads
    \* its stdin any more), the response lines it has still to write, and
    \* the non-blank line it produced for each request so far
    processor, stdin_pipe, stdout_pipe, stdout_closed, service_exited, service_out, answers,
    \* the tokenize call: its position, its text, its local segment, the
    \* number of requests written so far and the last return value
    tok_pc, tok_text, tok_segment, requests_sent, tokenize_ret

varsSpans == <<token_sequence, constraint_annotations, spans_ret>>
varsRemap == <<tokenized_sequence, detokenized_sequence, constraint_indices, remap_ret>>
varsEncode == <<enc_orig, enc_codes, enc_cache, encode_ret>>
varsBPE == <<bpe, sentence, segment_ret, segment_calls, encode_calls, merge_runs>>
varsService == <<stdin_pipe, stdout_pipe, stdout_closed, service_exited, service_out, answers>>
varsTokenize == <<processor, tok_pc, tok_text, tok_segment, requests_sent, tokenize_ret>>
varsTok == <<varsService, varsTokenize>>
vars == <<varsSpans, varsRemap, varsEncode, varsBPE, varsTok>>

\* Placeholder of a variable that a specification does not use.
Unused == "unused"
UnusedRet == [status |-> "unused"]
\* Return value of a call that has not been made yet.
Pending == [status |-> "pending"]

IdleSpans == token_sequence = Unused /\ constraint_annotations = Unused /\ spans_ret = UnusedRet
IdleRemap ==
    /\ tokenized_sequence = Unused /\ detokenized_sequence = Unused
    /\ constraint_indices = Unused /\ remap_ret = UnusedRet

IdleEncode ==
    /\ enc_orig = Unused /\ enc_codes = Unused /\ enc_cache = Unused /\ encode_ret = UnusedRet
IdleBPE ==
    /\ bpe = UnusedRet /\ sentence = Unused /\ segment_ret = UnusedRet
    /\ segment_calls = 0 /\ encode_calls = Unused /\ merge_runs = Unused

IdleTok ==
    /\ processor = Unused /\ stdin_pipe = <<>> /\ stdout_pipe = <<>> /\ stdout_closed = FALSE
    /\ service_exited = FALSE /\ service_out = <<>> /\ answers = <<>>
    /\ tok_pc = Unused /\ tok_text = Unused /\ tok_segment = Unused /\ requests_sent = 0
    /\ tokenize_ret = UnusedRet

-----------------------------------------------------------------------------
(* Python helpers *)

\* s[i] of a Python str, i counted from 0
CharAt(s, i) == SubSeq(s, i + 1, i + 1)

\* all sequences over S of length at most n
RECURSIVE SeqsUpTo(_, _)
SeqsUpTo(S, n) ==
    IF n = 0 THEN {<<>>}
    ELSE LET shorter == SeqsUpTo(S, n - 1)
         IN  shorter \cup {Append(q, x) : q \in {r \in shorter : Len(r) = n - 1}, x \in S}

\* all strings over the characters A of length at most n
RECURSIVE StrsUpTo(_, _)
StrsUpTo(A, n) ==
    IF n = 0 THEN {""}
    ELSE LET shorter == StrsUpTo(A, n - 1)
         IN  shorter \cup {q \o c : q \in {r \in shorter : Len(r) = n - 1}, c \in A}

-----------------------------------------------------------------------------
(* convert_token_annotations_to_spans *)

NoneAnn == <<>>
NoneId == -1
NoneIdx == -1

\* One iteration of the for loop (lines 78-99) on the pair (token, annotation);
\* st holds the locals span_annotations, output_sequence, constraint_id,
\* constraint_start_idx.
ConvertStep(st, token, annotation) ==
    LET st1 ==
            IF annotation # NoneAnn
            THEN IF annotation[1] # st.constraint_id
                 THEN [st EXCEPT
                         !.constraint_start_idx =
                             IF Len(st.output_sequence) > 0
                             THEN Len(st.output_sequence) + 1
                             ELSE Len(st.output_sequence),
                         !.constraint_id = annotation[1]]
                 ELSE st
            ELSE IF st.constraint_id # NoneId
                 THEN [st EXCEPT
                         !.span_annotations =
                             Append(@, <<st.constraint_start_idx, Len(st.output_sequence)>>),
                         !.constraint_id = NoneId,
                         !.constraint_start_idx = NoneIdx]
                 ELSE st
    IN  [st1 EXCEPT
           !.output_sequence =
               IF Len(st.output_sequence) = 0 THEN token ELSE @ \o " " \o token]

RECURSIVE ConvertLoop(_, _, _, _)
ConvertLoop(st, tokens, annotations, i) ==
    IF i > Len(tokens) THEN st
    ELSE ConvertLoop(ConvertStep(st, tokens[i], annotations[i]), tokens, annotations, i + 1)

\* convert_token_annotations_to_spans(token_sequence, constraint_annotations)
convert_token_annotations_to_spans(tokens, annotations) ==
    IF Len(tokens) # Len(annotations)
    THEN [status |-> "AssertionError"]
    ELSE LET st == ConvertLoop([span_annotations |-> <<>>, output_sequence |-> "",
                                constraint_id |-> NoneId, constraint_start_idx |-> NoneIdx],
                               tokens, annotations, 1)
         IN  [status |-> "ok", span_annotations |-> st.span_annotations,
              output_sequence |-> st.output_sequence]

\* bounds and inputs of the converter
MaxTokens == 3
Tokens == {"foo", "bar", "baz", "x"}
\* an annotation is None or (constraint id, position inside the constraint)
Annotations == {NoneAnn, <<0, 0>>, <<0, 1>>, <<1, 0>>}

InitSpans ==
    /\ token_sequence \in SeqsUpTo(Tokens, MaxTokens)
    /\ constraint_annotations \in SeqsUpTo(Annotations, MaxTokens)
    /\ spans_ret = Pending
    /\ IdleRemap /\ IdleEncode /\ IdleBPE /\ IdleTok

ConvertCall ==
    /\ spans_ret = Pending
    /\ spans_ret' = convert_token_annotations_to_spans(token_sequence, constraint_annotations)
    /\ UNCHANGED <<token_sequence, constraint_annotations, varsRemap, varsEncode, varsBPE, varsTok>>

NextSpans == ConvertCall
SpecSpans == InitSpans /\ [][NextSpans]_vars


\* The claim's reference: the character offset at which token i (from 1) starts
\* in the single-space join of tokens, and the offset just after it.
RECURSIVE TokenStart(_, _)
TokenStart(tokens, i) ==
    IF i = 1 THEN 0 ELSE TokenStart(tokens, i - 1) + Len(tokens[i - 1]) + 1
TokenEnd(tokens, i) == TokenStart(tokens, i) + Len(tokens[i])

RECURSIVE JoinSpace(_)
JoinSpace(tokens) ==
    IF Len(tokens) = 0 THEN ""
    ELSE IF Len(tokens) = 1 THEN tokens[1]
    ELSE tokens[1] \o " " \o JoinSpace(Tail(tokens))

\* the tag of an annotation: its constraint id
TagOf(annotation) == IF annotation = NoneAnn THEN NoneId ELSE annotation[1]

\* token i starts, or ends, a maximal run of one non-null tag
RunStarts(annotations, i) ==
    /\ TagOf(annotations[i]) # NoneId
    /\ (i = 1 \/ TagOf(annotations[i - 1]) # TagOf(annotations[i]))
RunEnds(annotations, i) ==
    /\ TagOf(annotations[i]) # NoneId
    /\ (i = Len(annotations) \/ TagOf(annotations[i + 1]) # TagOf(annotations[i]))

\* the end of the run that starts at token i
RECURSIVE RunEndFrom(_, _)
RunEndFrom(annotations, i) ==
    IF RunEnds(annotations, i) THEN i ELSE RunEndFrom(annotations, i + 1)

\* one span per maximal run, in text order, from token i on
RECURSIVE RunSpans(_, _, _)
RunSpans(tokens, annotations, i) ==
    IF i > Len(tokens) THEN <<>>
    ELSE IF RunStarts(annotations, i)
         THEN <<<<TokenStart(tokens, i), TokenEnd(tokens, RunEndFrom(annotations, i))>>>>
              \o RunSpans(tokens, annotations, i + 1)
         ELSE RunSpans(tokens, annotations, i + 1)

\* C1: with equal-length tokens and tags, the converter returns the
\* single-space join of the tokens and exactly one span per maximal run of one
\* non-null tag, from the offset of the run's first token to the offset just
\* after its last token; this includes a run that reaches the last token and a
\* run followed at once by a run of another tag.
C1_OneSpanPerRun ==
    spans_ret.status = "ok" =>
        /\ spans_ret.output_sequence = JoinSpace(token_sequence)
        /\ spans_ret.span_annotations = RunSpans(token_sequence, constraint_annotations, 1)

-----------------------------------------------------------------------------
(* remap_constraint_indices *)

\* dict comprehensions of lines 27-28: a later span overwrites an earlier one
\* that has the same key
RECURSIVE DictOfPairs(_, _, _)
DictOfPairs(spans, k, v) ==
    IF Len(spans) = 0 THEN <<>>
    ELSE LET n == Len(spans)
             before == DictOfPairs(SubSeq(spans, 1, n - 1), k, v)
             key == spans[n][k]
         IN  [x \in DOMAIN before \cup {key} |-> IF x = key THEN spans[n][v] ELSE before[x]]

constraint_idx_starts(spans) == DictOfPairs(spans, 1, 2)
constraint_idx_ends(spans) == DictOfPairs(spans, 2, 1)

\* CheckBoundary with the end of a span left untranslated (the offset is not
\* subtracted)
CheckBoundary_RawEnd(st, spans) ==
    IF st.tokenized_idx \in DOMAIN DictOfPairs(spans, 1, 2)
    THEN [st EXCEPT !.true_start = st.tokenized_idx - st.current_offset]
    ELSE IF st.tokenized_idx \in DOMAIN DictOfPairs(spans, 2, 1)
         THEN IF st.true_start = NoneIdx
              THEN [st EXCEPT !.status = "AssertionError"]
              ELSE [st EXCEPT
                      !.remapped_indices = Append(@, <<st.true_start, st.tokenized_idx>>),
                      !.true_start = NoneIdx]
         ELSE st

\* Lines 35-41 and 53-59: the test of the cursor against the span starts and
\* ends.  st holds the locals remapped_indices, tokenized_idx, current_offset,
\* true_start and the exception raised so far.
CheckBoundary(st, spans) ==
    IF st.tokenized_idx \in DOMAIN constraint_idx_starts(spans)
    THEN [st EXCEPT !.true_start = st.tokenized_idx - st.current_offset]
    ELSE IF st.tokenized_idx \in DOMAIN constraint_idx_ends(spans)
         THEN IF st.true_start = NoneIdx
              THEN [st EXCEPT !.status = "AssertionError"]
              ELSE [st EXCEPT
                      !.remapped_indices =
                          Append(@, <<st.true_start, st.tokenized_idx - st.current_offset>>),
                      !.true_start = NoneIdx]
         ELSE st

\* SkipLoop that stops silently at the end of tokenized instead of raising
RECURSIVE SkipLoop_Silent(_, _, _, _)
SkipLoop_Silent(st, tokenized, output_char, spans) ==
    IF st.status # "ok" THEN st
    ELSE IF st.tokenized_idx >= Len(tokenized) THEN st
    ELSE IF output_char = CharAt(tokenized, st.tokenized_idx) THEN st
    ELSE SkipLoop_Silent([st EXCEPT !.tokenized_idx = @ + 1, !.current_offset = @ + 1],
                         tokenized, output_char, spans)

\* Lines 44-59: the while loop that skips the characters of tokenized that
\* differ from output_char.  Reading tokenized_sequence[tokenized_idx] at or
\* past the end raises IndexError, as does the explicit test of line 47.
RECURSIVE SkipLoop(_, _, _, _)
SkipLoop(st, tokenized, output_char, spans) ==
    IF st.status # "ok" THEN st
    ELSE IF st.tokenized_idx >= Len(tokenized) THEN [st EXCEPT !.status = "IndexError"]
    ELSE IF output_char = CharAt(tokenized, st.tokenized_idx) THEN st
    ELSE LET st1 == [st EXCEPT !.tokenized_idx = @ + 1, !.current_offset = @ + 1]
         IN  IF st1.tokenized_idx > Len(tokenized)
             THEN [st1 EXCEPT !.status = "IndexError"]
             ELSE SkipLoop(CheckBoundary(st1, spans), tokenized, output_char, spans)

\* Lines 34-61: the for loop over the characters of detokenized, from
\* true_idx (counted from 0) on.
RECURSIVE RemapLoop(_, _, _, _, _)
RemapLoop(st, tokenized, detokenized, spans, true_idx) ==
    IF st.status # "ok" \/ true_idx >= Len(detokenized) THEN st
    ELSE LET st1 == CheckBoundary(st, spans)
             st2 == SkipLoop(st1, tokenized, CharAt(detokenized, true_idx), spans)
             st3 == IF st2.status = "ok" THEN [st2 EXCEPT !.tokenized_idx = @ + 1] ELSE st2
         IN  RemapLoop(st3, tokenized, detokenized, spans, true_idx + 1)

\* remap_constraint_indices(tokenized_sequence, detokenized_sequence, constraint_indices)
remap_constraint_indices(tokenized, detokenized, spans) ==
    LET st == RemapLoop([status |-> "ok", remapped_indices |-> <<>>, tokenized_idx |-> 0,
                         current_offset |-> 0, true_start |-> NoneIdx],
                        tokenized, detokenized, spans, 0)
    IN  IF st.status # "ok" THEN [status |-> st.status]
        ELSE [status |-> "ok",
              remapped_indices |->
                  IF st.true_start # NoneIdx
                  THEN Append(st.remapped_indices,
                              <<st.true_start, st.tokenized_idx - st.current_offset>>)
                  ELSE st.remapped_indices]

\* bounds and inputs of the remapper
MaxTokLen == 3
MaxSpans == 2
RemapChars == {"a", "@"}
\* the spans [start, end) inside a string of length n
SpansIn(n) == {<<a, b>> : a \in 0..n, b \in 0..n} \ {<<a, b>> \in (0..n) \X (0..n) : a >= b}
\* the example of the specification, and a pair of adjacent spans on it
RemapSamples ==
    {<<"fo@@ o bar", "foo bar", sp>> : sp \in {<<<<0, 5>>>>, <<<<0, 6>>>>, <<<<0, 6>>, <<7, 10>>>>}}

InitRemap ==
    /\ \/ /\ tokenized_sequence \in StrsUpTo(RemapChars, MaxTokLen)
          /\ detokenized_sequence \in StrsUpTo(RemapChars, MaxTokLen)
          /\ constraint_indices \in SeqsUpTo(SpansIn(Len(tokenized_sequence)), MaxSpans)
       \/ \E sample \in RemapSamples :
              /\ tokenized_sequence = sample[1]
              /\ detokenized_sequence = sample[2]
              /\ constraint_indices = sample[3]
    /\ remap_ret = Pending
    /\ IdleSpans /\ IdleEncode /\ IdleBPE /\ IdleTok

RemapCall ==
    /\ remap_ret = Pending
    /\ remap_ret' = remap_constraint_indices(tokenized_sequence, detokenized_sequence,
                                             constraint_indices)
    /\ UNCHANGED <<tokenized_sequence, detokenized_sequence, constraint_indices, varsSpans,
                   varsEncode, varsBPE, varsTok>>

NextRemap == RemapCall
SpecRemap == InitRemap /\ [][NextRemap]_vars

\* detokenized is tokenized with some characters deleted
RECURSIVE IsSubsequence(_, _)
IsSubsequence(d, t) ==
    IF Len(d) = 0 THEN TRUE
    ELSE IF Len(t) = 0 THEN FALSE
    ELSE IF CharAt(d, 0) = CharAt(t, 0) THEN IsSubsequence(Tail(d), Tail(t))
    ELSE IsSubsequence(d, Tail(t))

\* the number of the first p characters of t that the leftmost alignment of d
\* inside t keeps: the text-space offset of the token-space offset p
RECURSIVE KeptBefore(_, _, _)
KeptBefore(t, d, p) ==
    IF p = 0 \/ Len(t) = 0 THEN 0
    ELSE IF Len(d) > 0 /\ CharAt(d, 0) = CharAt(t, 0)
         THEN 1 + KeptBefore(Tail(t), Tail(d), p - 1)
         ELSE KeptBefore(Tail(t), d, p - 1)

\* the leftmost alignment keeps the character of t at offset p
KeptAt(t, d, p) == p < Len(t) /\ KeptBefore(t, d, p + 1) = KeptBefore(t, d, p) + 1

RefRemap(t, d, span) == <<KeptBefore(t, d, span[1]), KeptBefore(t, d, span[2])>>

\* non-empty spans inside tokenized, no two of which overlap (so no two share
\* a start or an end; the end of one may be the start of another)
NonOverlapping(spans, n) ==
    /\ \A i \in DOMAIN spans : 0 <= spans[i][1] /\ spans[i][1] < spans[i][2] /\ spans[i][2] <= n
    /\ \A i, j \in DOMAIN spans :
           i # j => (spans[i][2] <= spans[j][1] \/ spans[j][2] <= spans[i][1])

RemapDone == remap_ret.status \in {"ok", "IndexError", "AssertionError"}
IsExample == tokenized_sequence = "fo@@ o bar" /\ detokenized_sequence = "foo bar"

\* C2 as stated: in the example the span [[0,5]] is remapped to [[0,3]].
C2_ExampleAsStated ==
    (RemapDone /\ IsExample /\ constraint_indices = <<<<0, 5>>>>) =>
        (remap_ret.status = "ok" /\ remap_ret.remapped_indices = <<<<0, 3>>>>)

\* C2 amended: a single span whose first character is kept in detokenized is
\* remapped to the text-space span of the same characters, both offsets lowered
\* by the number of deleted characters before them; in the example [[0,6]],
\* the span that covers "fo@@ o", gives [[0,3]], and [[0,5]] gives [[0,2]].
C2_SingleSpanRemapped ==
    RemapDone =>
        /\ (/\ IsSubsequence(detokenized_sequence, tokenized_sequence)
            /\ Len(constraint_indices) = 1
            /\ NonOverlapping(constraint_indices, Len(tokenized_sequence))
            /\ KeptAt(tokenized_sequence, detokenized_sequence, constraint_indices[1][1]))
           => /\ remap_ret.status = "ok"
              /\ remap_ret.remapped_indices =
                     <<RefRemap(tokenized_sequence, detokenized_sequence, constraint_indices[1])>>
        /\ (IsExample /\ constraint_indices = <<<<0, 6>>>>)
           => (remap_ret.status = "ok" /\ remap_ret.remapped_indices = <<<<0, 3>>>>)
        /\ (IsExample /\ constraint_indices = <<<<0, 5>>>>)
           => (remap_ret.status = "ok" /\ remap_ret.remapped_indices = <<<<0, 2>>>>)

C2_Witness ==
    /\ RemapDone /\ IsExample /\ constraint_indices = <<<<0, 6>>>>
    /\ remap_ret.remapped_indices = <<<<0, 3>>>>

\* C3: when detokenized is tokenized with characters deleted and the spans do
\* not overlap, the result has one element per input span, the i-th being the
\* remapped i-th input span.
C3_NoSpanLost ==
    (/\ RemapDone
     /\ IsSubsequence(detokenized_sequence, tokenized_sequence)
     /\ NonOverlapping(constraint_indices, Len(tokenized_sequence)))
    => /\ remap_ret.status = "ok"
       /\ Len(remap_ret.remapped_indices) = Len(constraint_indices)
       /\ \A i \in DOMAIN constraint_indices :
              remap_ret.remapped_indices[i] =
                  RefRemap(tokenized_sequence, detokenized_sequence, constraint_indices[i])

\* C4 as stated: for any spans, the call ends in IndexError, returning no
\* spans, exactly when detokenized is not tokenized with characters deleted.
C4_AsStated ==
    RemapDone =>
        (remap_ret.status = "IndexError"
            <=> ~IsSubsequence(detokenized_sequence, tokenized_sequence))

\* C4 amended: with any spans, the call returns no span list when detokenized
\* is not tokenized with characters deleted (it ends in IndexError, or in the
\* AssertionError of a span end met with no span open), and it raises no
\* IndexError when it is; with spans that do not overlap, it ends in
\* IndexError exactly when detokenized is not tokenized with characters
\* deleted.
C4_AlignmentError ==
    RemapDone =>
        /\ IsSubsequence(detokenized_sequence, tokenized_sequence)
               => remap_ret.status # "IndexError"
        /\ ~IsSubsequence(detokenized_sequence, tokenized_sequence)
               => remap_ret.status # "ok"
        /\ (/\ ~IsSubsequence(detokenized_sequence, tokenized_sequence)
            /\ NonOverlapping(constraint_indices, Len(tokenized_sequence)))
               => remap_ret.status = "IndexError"

C4_Witness ==
    /\ remap_ret.status = "IndexError"
    /\ Len(constraint_indices) = 2
    /\ NonOverlapping(constraint_indices, Len(tokenized_sequence))
    /\ Len(detokenized_sequence) = Len(tokenized_sequence)

-----------------------------------------------------------------------------
(* str helpers used by the BPE segmenter and the tokenizer adapter *)

\* The characters that split(), strip() and rstrip() without an argument take
\* as whitespace.  On a byte string (str) they are the six of
\* string.whitespace: space, \t, \n, \r, \x0c and \x0b (the last is written
\* as the character itself, for want of an escape).
Whitespace == {" ", "\t", "\n", "\r", "\f", ""}
\* On a unicode string they are the characters unicode.isspace() accepts: the
\* six above, U+001C..U+001F, U+0085 and U+00A0.  The whitespace code points
\* above U+00FF (U+1680, U+2000..U+200A, U+2028, U+2029, U+202F, U+205F,
\* U+3000) cannot be written in a string of this module; no string of the
\* model holds one.
UnicodeWhitespace == Whitespace \cup {"", "", "", "", "", " "}

IsSpace(c) == c \in Whitespace
IsUnicodeSpace(c) == c \in UnicodeWhitespace

\* split() with whitespace ws: the maximal runs of non-whitespace characters
\* of s, in order; cur is the field being read
RECURSIVE SplitFrom(_, _, _, _)
SplitFrom(ws, s, i, cur) ==
    IF i >= Len(s) THEN (IF cur = "" THEN <<>> ELSE <<cur>>)
    ELSE IF CharAt(s, i) \in ws
         THEN (IF cur = "" THEN <<>> ELSE <<cur>>) \o SplitFrom(ws, s, i + 1, "")
         ELSE SplitFrom(ws, s, i + 1, cur \o CharAt(s, i))
\* str.split() and unicode.split()
Split(s) == SplitFrom(Whitespace, s, 0, "")
USplit(s) == SplitFrom(UnicodeWhitespace, s, 0, "")

\* u' '.join(items)
RECURSIVE Join(_)
Join(items) ==
    IF Len(items) = 0 THEN ""
    ELSE IF Len(items) = 1 THEN items[1]
    ELSE items[1] \o " " \o Join(Tail(items))

\* tuple(s): the characters of s
RECURSIVE CharsOf(_)
CharsOf(s) == IF Len(s) = 0 THEN <<>> ELSE <<CharAt(s, 0)>> \o CharsOf(Tail(s))

\* s.endswith(suffix)
EndsWith(s, suffix) ==
    Len(s) >= Len(suffix) /\ SubSeq(s, Len(s) - Len(suffix) + 1, Len(s)) = suffix

\* s.replace(old, ''): every occurrence of old, found from the left, removed
RECURSIVE RemoveAll(_, _)
RemoveAll(s, old) ==
    IF Len(s) < Len(old) THEN s
    ELSE IF SubSeq(s, 1, Len(old)) = old THEN RemoveAll(SubSeq(s, Len(old) + 1, Len(s)), old)
    ELSE CharAt(s, 0) \o RemoveAll(Tail(s), old)

-----------------------------------------------------------------------------
(* get_pairs, encode *)

EndOfWord == "</w>"
NoneCache == [none |-> TRUE]
\* the ignore argument of BPE: None, or a collection of words
NoneIgnore == [is_none |-> TRUE, words |-> {}]
IgnoreWords(ws) == [is_none |-> FALSE, words |-> ws]
EmptyDict == <<>>

\* get_pairs(word): the set of adjacent symbol pairs of word
get_pairs(word) == {<<word[i], word[i + 1]>> : i \in 1..(Len(word) - 1)}

\* word.index(first, i): the least j >= i (from 0) with word[j] = first, or -1
\* where Python raises ValueError
IndexFrom(word, first, i) ==
    LET hits == {j \in i..(Len(word) - 1) : word[j + 1] = first}
    IN  IF hits = {} THEN -1 ELSE CHOOSE j \in hits : \A k \in hits : j <= k

\* MergeLoop without line 145: the symbols after the last occurrence of first
\* are not copied
RECURSIVE MergeLoop_DropsRest(_, _, _, _, _)
MergeLoop_DropsRest(word, first, second, i, new_word) ==
    IF ~(i < Len(word)) THEN new_word
    ELSE LET hits == {j \in i..(Len(word) - 1) : word[j + 1] = first}
             j == IF hits = {} THEN -1 ELSE CHOOSE m \in hits : \A k \in hits : m <= k
         IN  IF j = -1 THEN new_word
             ELSE LET copied == new_word \o SubSeq(word, i + 1, j)
                  IN  IF word[j + 1] = first /\ j < Len(word) - 1 /\ word[j + 2] = second
                      THEN MergeLoop_DropsRest(word, first, second, j + 2,
                                               Append(copied, first \o second))
                      ELSE MergeLoop_DropsRest(word, first, second, j + 1,
                                               Append(copied, word[j + 1]))

\* Lines 139-153: the inner while loop, from position i with new_word built so far
RECURSIVE MergeLoop(_, _, _, _, _)
MergeLoop(word, first, second, i, new_word) ==
    IF ~(i < Len(word)) THEN new_word
    ELSE LET j == IndexFrom(word, first, i)
         IN  IF j = -1 THEN new_word \o SubSeq(word, i + 1, Len(word))
             ELSE LET copied == new_word \o SubSeq(word, i + 1, j)
                  IN  IF word[j + 1] = first /\ j < Len(word) - 1 /\ word[j + 2] = second
                      THEN MergeLoop(word, first, second, j + 2, Append(copied, first \o second))
                      ELSE MergeLoop(word, first, second, j + 1, Append(copied, word[j + 1]))

\* Line 133: min(pairs, key=lambda pair: bpe_codes.get(pair, float('inf'))).
\* The pairs outside the table all have the key inf; when no pair is in the
\* table min returns one of them and line 134 leaves the loop, so the choice
\* among them is not observable.
MinBigram(pairs, bpe_codes) ==
    LET ranked == {p \in pairs : p \in DOMAIN bpe_codes}
    IN  IF ranked = {} THEN CHOOSE p \in pairs : TRUE
        ELSE CHOOSE p \in ranked : \A q \in ranked : bpe_codes[p] <= bpe_codes[q]

\* Lines 132-159: the outer while loop
RECURSIVE EncodeLoop(_, _)
EncodeLoop(word, bpe_codes) ==
    LET bigram == MinBigram(get_pairs(word), bpe_codes)
    IN  IF bigram \notin DOMAIN bpe_codes THEN word
        ELSE LET new_word == MergeLoop(word, bigram[1], bigram[2], 0, <<>>)
             IN  IF Len(new_word) = 1 THEN new_word ELSE EncodeLoop(new_word, bpe_codes)

\* Lines 161-165: the end-of-word symbol is not printed
StripEndOfWord(word) ==
    LET last == word[Len(word)]
        front == SubSeq(word, 1, Len(word) - 1)
    IN  IF last = EndOfWord THEN front
        ELSE IF EndsWith(last, EndOfWord) THEN Append(front, RemoveAll(last, EndOfWord))
        ELSE word

\* encode(orig, bpe_codes, cache): the returned word, the cache after the call
\* and whether the merge loop ran (it does not on a cache hit)
encode(orig, bpe_codes, cache) ==
    LET cache0 == IF cache = NoneCache THEN EmptyDict ELSE cache
    IN  IF orig \in DOMAIN cache0
        THEN [status |-> "ok", word |-> cache0[orig], cache |-> cache0, ran_loop |-> FALSE]
        ELSE LET word == CharsOf(orig) \o <<EndOfWord>>
             IN  IF get_pairs(word) = {}
                 THEN [status |-> "ValueError", word |-> <<>>, cache |-> cache0,
                       ran_loop |-> TRUE]
                 ELSE LET final == StripEndOfWord(EncodeLoop(word, bpe_codes))
                      IN  [status |-> "ok", word |-> final,
                           cache |-> [w \in DOMAIN cache0 \cup {orig} |->
                                         IF w = orig THEN final ELSE cache0[w]],
                           ran_loop |-> TRUE]

-----------------------------------------------------------------------------
(* class BPE *)

\* Line 178: dict([(code, i) for (i, code) in reversed(list(enumerate(codes)))]),
\* the pairs taken from index k (from 1) down to the first; a later pair of
\* the list overwrites an earlier one, so the first declaration's rank stays
RECURSIVE DictOfReversed(_, _, _)
DictOfReversed(tuples, k, d) ==
    IF k > Len(tuples) THEN d
    ELSE LET rest == DictOfReversed(tuples, k + 1, d)
         IN  [c \in DOMAIN rest \cup {tuples[k]} |-> IF c = tuples[k] THEN k - 1 ELSE rest[c]]

\* BPE.__init__(codes, separator, ignore).  The items of codes are unicode
\* strings: the lines of codecs.open(subword_codes, encoding='utf-8') (line
\* 207).
BPE_init(codes, separator, ignore) ==
    [bpe_codes |-> DictOfReversed([i \in DOMAIN codes |-> USplit(codes[i])], 1, EmptyDict),
     separator |-> separator,
     ignore |-> ignore]

\* Lines 185-193: the loop of segment over sentence.split(), from word i on.
\* acc holds output and, for the bookkeeping of the model, the encode calls
\* made: the word of each and whether it ran the merge loop.
RECURSIVE SegmentLoop(_, _, _, _)
SegmentLoop(self, words, i, acc) ==
    IF i > Len(words) THEN acc
    ELSE IF ~self.ignore.is_none /\ words[i] \in self.ignore.words
         THEN SegmentLoop(self, words, i + 1, [acc EXCEPT !.output = Append(@, words[i])])
         ELSE LET r == encode(words[i], self.bpe_codes, NoneCache)
                  new_word == r.word
                  n == Len(new_word)
              IN  SegmentLoop(self, words, i + 1,
                      [output |-> acc.output
                                  \o [k \in 1..(n - 1) |-> new_word[k] \o self.separator]
                                  \o <<new_word[n]>>,
                       calls |-> Append(acc.calls, [word |-> words[i], ran_loop |-> r.ran_loop])])

\* BPE.segment(sentence).  sentence is a unicode string: the decoded line of
\* line 234.
BPE_segment(self, text) ==
    LET acc == SegmentLoop(self, USplit(text), 1, [output |-> <<>>, calls |-> <<>>])
    IN  [status |-> "ok", output |-> Join(acc.output), calls |-> acc.calls]

\* the number of encode calls on word w in calls (only those that ran the
\* merge loop when loopOnly)
RECURSIVE CountCalls(_, _, _)
CountCalls(calls, w, loopOnly) ==
    IF Len(calls) = 0 THEN 0
    ELSE (IF calls[1].word = w /\ (calls[1].ran_loop \/ ~loopOnly) THEN 1 ELSE 0)
         + CountCalls(Tail(calls), w, loopOnly)

-----------------------------------------------------------------------------
(* encode called on its own *)

MaxWordLen == 3
MaxRules == 2
EncChars == {"a", "b"}
EncSymbols == {"a", "b", "ab", "</w>"}
\* the lines of a merge-table file: two symbols and a space between them
RuleLines == {x \o " " \o y \o "\n" : x \in EncSymbols, y \in EncSymbols}
\* the example of the specification, and a word that is the end-of-word text
\* with a table that merges it into one symbol
EncodeSamples ==
    { <<"abc", <<"a b\n">>>>,
      <<"</w>", <<"< /\n", "</ w\n", "</w >\n", "</w> </w>\n">>>> }

InitEncode ==
    /\ \/ /\ enc_orig \in StrsUpTo(EncChars, MaxWordLen)
          /\ \E codes \in SeqsUpTo(RuleLines, MaxRules) :
                 enc_codes = BPE_init(codes, "@@", NoneIgnore).bpe_codes
       \/ \E sample \in EncodeSamples :
              /\ enc_orig = sample[1]
              /\ enc_codes = BPE_init(sample[2], "@@", NoneIgnore).bpe_codes
    /\ enc_cache \in {NoneCache, EmptyDict}
    /\ encode_ret = Pending
    /\ IdleSpans /\ IdleRemap /\ IdleBPE /\ IdleTok

EncodeCall ==
    /\ encode_ret = Pending
    /\ encode_ret' = encode(enc_orig, enc_codes, enc_cache)
    /\ UNCHANGED <<enc_orig, enc_codes, enc_cache, varsSpans, varsRemap, varsBPE, varsTok>>

NextEncode == EncodeCall
SpecEncode == InitEncode /\ [][NextEncode]_vars

-----------------------------------------------------------------------------
(* a BPE object: construction, then segment calls *)

MaxCodes == 2
MaxSentenceWords == 2
MaxSegmentCalls == 2
\* declarations of a merge-table file; the last three do not hold two fields
CodeLines == {"a b\n", "b </w>\r\n", "a\n", "a b c\n", "\n"}
SegWords == {"ab", "b"}
Sentences == {Join(ws) : ws \in SeqsUpTo(SegWords, MaxSentenceWords)}

InitBPE ==
    /\ bpe = [status |-> "unconstructed"]
    /\ sentence = "" /\ segment_ret = Pending
    /\ segment_calls = 0
    /\ encode_calls = [w \in SegWords |-> 0]
    /\ merge_runs = [w \in SegWords |-> 0]
    /\ IdleSpans /\ IdleRemap /\ IdleEncode /\ IdleTok

\* BPE(codes, ignore=...): always returns an object
Construct ==
    /\ bpe.status = "unconstructed"
    /\ \E codes \in SeqsUpTo(CodeLines, MaxCodes), ignore \in {NoneIgnore, IgnoreWords({"b"})} :
           bpe' = [status |-> "ok", codes |-> codes, self |-> BPE_init(codes, "@@", ignore)]
    /\ UNCHANGED <<sentence, segment_ret, segment_calls, encode_calls, merge_runs,
                   varsSpans, varsRemap, varsEncode, varsTok>>

\* bpe.segment(sentence)
Segment ==
    /\ bpe.status = "ok"
    /\ segment_calls < MaxSegmentCalls
    /\ \E text \in Sentences :
           LET r == BPE_segment(bpe.self, text)
           IN  /\ sentence' = text
               /\ segment_ret' = r
               /\ encode_calls' = [w \in SegWords |-> encode_calls[w] + CountCalls(r.calls, w, FALSE)]
               /\ merge_runs' = [w \in SegWords |-> merge_runs[w] + CountCalls(r.calls, w, TRUE)]
    /\ segment_calls' = segment_calls + 1
    /\ UNCHANGED <<bpe, varsSpans, varsRemap, varsEncode, varsTok>>

NextBPE == Construct \/ Segment
SpecBPE == InitBPE /\ [][NextBPE]_vars

-----------------------------------------------------------------------------
(* claims on the BPE object and on encode *)

\* C7: construction fails with a malformed-rule error when a declaration does
\* not split into exactly two fields, and no table with a key of another arity
\* is built.
C7_MalformedRuleRejected ==
    bpe.status = "ok" =>
        /\ \A i \in DOMAIN bpe.codes : Len(USplit(bpe.codes[i])) = 2
        /\ \A key \in DOMAIN bpe.self.bpe_codes : Len(key) = 2

\* C8: once a BPE object has segmented a word, every later segmentation of
\* that word by the same object is a cache hit: the merge loop runs once per
\* word over the object's lifetime.
C8_CachePersists ==
    bpe.status = "ok" =>
        \A w \in SegWords : encode_calls[w] >= 1 => merge_runs[w] = 1

\* The reference procedure of C9.  One merge pass: every non-overlapping
\* occurrence of the pair (first, second), from the left, becomes one symbol.
RECURSIVE RefMergePass(_, _, _)
RefMergePass(word, first, second) ==
    IF Len(word) = 0 THEN <<>>
    ELSE IF Len(word) >= 2 /\ word[1] = first /\ word[2] = second
         THEN <<first \o second>> \o RefMergePass(SubSeq(word, 3, Len(word)), first, second)
         ELSE <<word[1]>> \o RefMergePass(Tail(word), first, second)

RECURSIVE RefMergeAll(_, _)
RefMergeAll(word, table) ==
    LET present == {k \in DOMAIN table :
                        Len(k) = 2 /\ \E i \in 1..(Len(word) - 1) :
                                          word[i] = k[1] /\ word[i + 1] = k[2]}
    IN  IF present = {} \/ Len(word) = 1 THEN word
        ELSE LET best == CHOOSE k \in present : \A q \in present : table[k] <= table[q]
             IN  RefMergeAll(RefMergePass(word, best[1], best[2]), table)

\* the end-of-word marker dropped, or stripped as the suffix of the last symbol
RefStrip(word) ==
    LET last == word[Len(word)]
        front == SubSeq(word, 1, Len(word) - 1)
    IN  IF last = EndOfWord THEN front
        ELSE Append(front, SubSeq(last, 1, Len(last) - Len(EndOfWord)))

RefEncode(w, table) == RefStrip(RefMergeAll(CharsOf(w) \o <<EndOfWord>>, table))

\* C9: for every non-empty word and every merge table encode returns the
\* symbols of the reference procedure (lowest-priority present pair first,
\* every non-overlapping occurrence merged from the left, until no present
\* pair is in the table or one symbol remains, then the marker stripped); for
\* the table {(a,b): 0} and the word "abc" it returns (ab, c).
C9_MatchesReference ==
    (encode_ret.status \in {"ok", "ValueError"} /\ enc_orig # "") =>
        /\ encode_ret.status = "ok"
        /\ encode_ret.word = RefEncode(enc_orig, enc_codes)
        /\ (enc_orig = "abc" /\ DOMAIN enc_codes = {<<"a", "b">>})
               => encode_ret.word = <<"ab", "c">>

\* sub occurs in s
Contains(s, sub) == \E i \in 1..(Len(s) - Len(sub) + 1) : SubSeq(s, i, i + Len(sub) - 1) = sub

RECURSIVE Concat(_)
Concat(symbols) == IF Len(symbols) = 0 THEN "" ELSE symbols[1] \o Concat(Tail(symbols))

\* C10: for a non-empty word that does not contain the end-of-word text and
\* any merge table, encode returns a non-empty sequence of non-empty symbols
\* whose concatenation is the word; the marker is in none of them.
C10_Lossless ==
    (/\ encode_ret.status \in {"ok", "ValueError"}
     /\ enc_orig # ""
     /\ ~Contains(enc_orig, EndOfWord))
    => /\ encode_ret.status = "ok"
       /\ Len(encode_ret.word) >= 1
       /\ \A i \in DOMAIN encode_ret.word :
              encode_ret.word[i] # "" /\ ~Contains(encode_ret.word[i], EndOfWord)
       /\ Concat(encode_ret.word) = enc_orig

C10_Witness ==
    /\ encode_ret.status = "ok"
    /\ enc_orig = "aab"
    /\ encode_ret.word = <<"a", "ab">>
    /\ <<"ab", "</w>">> \in DOMAIN enc_codes

-----------------------------------------------------------------------------
(* class DataProcessor: tokenize and the tokenizer subprocess *)

\* rstrip() and strip() with whitespace ws
RECURSIVE RStripOf(_, _)
RStripOf(ws, s) ==
    IF Len(s) > 0 /\ CharAt(s, Len(s) - 1) \in ws THEN RStripOf(ws, SubSeq(s, 1, Len(s) - 1)) ELSE s
RECURSIVE LStripOf(_, _)
LStripOf(ws, s) == IF Len(s) > 0 /\ CharAt(s, 0) \in ws THEN LStripOf(ws, Tail(s)) ELSE s
\* str.rstrip(), str.strip() and unicode.strip()
RStrip(s) == RStripOf(Whitespace, s)
Strip(s) == LStripOf(Whitespace, RStripOf(Whitespace, s))
UStrip(s) == LStripOf(UnicodeWhitespace, RStripOf(UnicodeWhitespace, s))

\* Line 218: text.strip() of the argument of tokenize, a str or a unicode
StripText(text) == IF text.is_unicode THEN UStrip(text.value) ELSE Strip(text.value)

\* Lines 234-240: the tokens of the line segment.  segment is the str that
\* readline returned, and rstrip() is str.rstrip(); utf_line is its utf8
\* decoding, a unicode string with the same characters since the lines of the
\* model are ASCII, and both split() calls are unicode.split().
TokensOfLine(self, segment) ==
    LET utf_line == RStrip(segment)
    IN  IF self.use_subword
        THEN USplit(BPE_segment(self.bpe, utf_line).output)
        ELSE USplit(utf_line)

\* self.tokenizer.stdout.readline() can return: a line is in the pipe, or the
\* pipe is empty and at end of file; otherwise the call blocks
CanReadLine == stdout_pipe # <<>> \/ stdout_closed
\* its value: the next line, or '' at end of file
ReadLineValue == IF stdout_pipe # <<>> THEN Head(stdout_pipe) ELSE ""
PipeAfterRead == IF stdout_pipe # <<>> THEN Tail(stdout_pipe) ELSE stdout_pipe

MaxRequests == 2
MaxBlankLines == 1
\* arguments of tokenize, each as a str and as a unicode: two sentences, two
\* blank texts, and U+001C, which is whitespace in a unicode and not in a str
TextValues == {"ab b", "b", " ", "", ""}
Texts == [is_unicode : BOOLEAN, value : TextValues]
\* what the service writes for a request: its line for the sentence and the
\* line it writes for the blank line that ends the request
ResponseLines == {"ab b\r\n", "b\n"}
TrailingLines == {"\n", "#\n"}

InitTok ==
    /\ \E use_subword \in BOOLEAN :
           processor = [use_subword |-> use_subword,
                        bpe |-> BPE_init(<<"b </w>\n">>, "@@", NoneIgnore)]
    /\ stdin_pipe = <<>> /\ stdout_pipe = <<>> /\ stdout_closed = FALSE
    /\ service_exited = FALSE /\ service_out = <<>> /\ answers = <<>>
    /\ tok_pc = "idle" /\ tok_text = [is_unicode |-> FALSE, value |-> ""]
    /\ tok_segment = "\n" /\ requests_sent = 0
    /\ tokenize_ret = Pending
    /\ IdleSpans /\ IdleRemap /\ IdleEncode /\ IdleBPE

\* Lines 218-228: tokenize(text) up to the first readline.  The request written
\* is text (utf8-encoded when a unicode, lines 220-221: the same characters,
\* the texts being ASCII) and two newlines.  When the subprocess has exited,
\* the write of lines 223-224 raises IOError (broken pipe) and the call ends
\* there; a subprocess that only closed its stdout still takes the write.
\* The field request of the return value is the number of the request the
\* call wrote, 0 when it wrote none.
TokenizeStart ==
    /\ tok_pc = "idle"
    /\ \E text \in Texts :
           /\ tok_text' = text
           /\ IF Len(StripText(text)) = 0
              THEN /\ tokenize_ret' = [status |-> "ok", tokens |-> <<>>, request |-> 0]
                   /\ UNCHANGED <<stdin_pipe, tok_pc, tok_segment, requests_sent>>
              ELSE IF service_exited
              THEN /\ tokenize_ret' = [status |-> "IOError", tokens |-> <<>>, request |-> 0]
                   /\ UNCHANGED <<stdin_pipe, tok_pc, tok_segment, requests_sent>>
              ELSE /\ requests_sent < MaxRequests
                   /\ stdin_pipe' = Append(stdin_pipe, text.value \o "\n\n")
                   /\ requests_sent' = requests_sent + 1
                   /\ tok_segment' = "\n"
                   /\ tok_pc' = "reading"
                   /\ tokenize_ret' = Pending
    /\ UNCHANGED <<processor, stdout_pipe, stdout_closed, service_exited, service_out, answers,
                   varsSpans, varsRemap, varsEncode, varsBPE>>

\* Lines 229-230: one iteration of the loop while segment == '\n'
ReadSegment ==
    /\ tok_pc = "reading"
    /\ CanReadLine
    /\ tok_segment' = ReadLineValue
    /\ stdout_pipe' = PipeAfterRead
    /\ tok_pc' = IF ReadLineValue = "\n" THEN "reading" ELSE "discard"
    /\ UNCHANGED <<processor, stdin_pipe, stdout_closed, service_exited, service_out, answers, tok_text,
                   requests_sent, tokenize_ret, varsSpans, varsRemap, varsEncode, varsBPE>>

\* ReadTrailing without the readline of line 232
ReadTrailing_NoDiscard ==
    /\ tok_pc = "discard"
    /\ CanReadLine
    /\ tokenize_ret' = [status |-> "ok", tokens |-> TokensOfLine(processor, tok_segment),
                        request |-> requests_sent]
    /\ tok_pc' = "idle"
    /\ UNCHANGED <<processor, stdin_pipe, stdout_pipe, stdout_closed, service_exited, service_out, answers,
                   tok_text, tok_segment, requests_sent,
                   varsSpans, varsRemap, varsEncode, varsBPE>>

\* Lines 232-240: one more line is read and dropped, and the tokens of
\* segment are returned
ReadTrailing ==
    /\ tok_pc = "discard"
    /\ CanReadLine
    /\ stdout_pipe' = PipeAfterRead
    /\ tokenize_ret' = [status |-> "ok", tokens |-> TokensOfLine(processor, tok_segment),
                        request |-> requests_sent]
    /\ tok_pc' = "idle"
    /\ UNCHANGED <<processor, stdin_pipe, stdout_closed, service_exited, service_out, answers, tok_text,
                   tok_segment, requests_sent, varsSpans, varsRemap, varsEncode, varsBPE>>

\* The service takes a request (a sentence line and a blank line) and plans
\* its response: blank lines, its line for the sentence, its trailing line.
ServiceAccept ==
    /\ ~stdout_closed
    /\ stdin_pipe # <<>>
    /\ service_out = <<>>
    /\ \E blanks \in 0..MaxBlankLines, line \in ResponseLines, trailing \in TrailingLines :
           /\ service_out' = [i \in 1..blanks |-> "\n"] \o <<line, trailing>>
           /\ answers' = Append(answers, [blanks |-> blanks, line |-> line,
                                          trailing |-> trailing])
    /\ stdin_pipe' = Tail(stdin_pipe)
    /\ UNCHANGED <<stdout_pipe, stdout_closed, service_exited, varsTokenize,
                   varsSpans, varsRemap, varsEncode, varsBPE>>

\* The service writes the next line of its response.
ServiceEmit ==
    /\ ~stdout_closed
    /\ service_out # <<>>
    /\ stdout_pipe' = Append(stdout_pipe, Head(service_out))
    /\ service_out' = Tail(service_out)
    /\ UNCHANGED <<stdin_pipe, stdout_closed, service_exited, answers, varsTokenize,
                   varsSpans, varsRemap, varsEncode, varsBPE>>

\* The service closes its output and keeps its input open: what it had not
\* written is lost, and requests can still be written to it.
ServiceClose ==
    /\ ~stdout_closed
    /\ stdout_closed' = TRUE
    /\ service_out' = <<>>
    /\ UNCHANGED <<stdin_pipe, stdout_pipe, service_exited, answers, varsTokenize,
                   varsSpans, varsRemap, varsEncode, varsBPE>>

\* The service exits: both its ends of the pipes close.  What it had not
\* written and the requests it had not taken are lost; the lines it wrote can
\* still be read.
ServiceExit ==
    /\ ~service_exited
    /\ service_exited' = TRUE
    /\ stdout_closed' = TRUE
    /\ service_out' = <<>>
    /\ stdin_pipe' = <<>>
    /\ UNCHANGED <<stdout_pipe, answers, varsTokenize,
                   varsSpans, varsRemap, varsEncode, varsBPE>>

NextTok ==
    \/ TokenizeStart \/ ReadSegment \/ ReadTrailing
    \/ ServiceAccept \/ ServiceEmit \/ ServiceClose \/ ServiceExit
SpecTok == InitTok /\ [][NextTok]_vars

\* a tokenize call that wrote a request has returned
Returned == tok_pc = "idle" /\ tokenize_ret.status = "ok" /\ tokenize_ret.request > 0

\* C5: a tokenize call that wrote its request and whose reads reach end of
\* file before any non-blank line fails with a tokenizer protocol error and
\* returns no token list.
C5_ProtocolErrorOnEof ==
    (tok_pc = "idle" /\ tokenize_ret.status # "pending" /\ tokenize_ret.request > 0
        /\ tok_segment = "")
    => tokenize_ret.status = "TokenizerProtocolError"

\* C6: while the service answers every request with blank lines, one
\* non-blank line and one trailing line, the call that wrote the k-th request
\* returns the tokens of the non-blank line produced for the k-th request, and
\* at its return no line of a response is left unread.
C6_ResponsesStayAligned ==
    (Returned /\ ~stdout_closed) =>
        /\ Len(answers) = tokenize_ret.request
        /\ tokenize_ret.tokens = TokensOfLine(processor, answers[tokenize_ret.request].line)
        /\ stdout_pipe = <<>>
        /\ service_out = <<>>

C6_Witness ==
    /\ Returned /\ ~stdout_closed
    /\ tokenize_ret.request = 2
    /\ answers[1].line # answers[2].line
    /\ answers[1].trailing = "#\n"
    /\ answers[2].blanks = 1
    /\ processor.use_subword
    /\ tokenize_ret.tokens = <<"a@@", "b", "b">>

=============================================================================
